---------------------------- MODULE Spec2Model ----------------------------
(***************************************************************************)
(* SpectrumView (src/vst3/src/gui/spectrum_view.{h,cpp}): the FFT-based    *)
(* spectrum display of the SNES SPC plugin.                                *)
(*                                                                         *)
(* Numbers.  The C++ code computes in IEEE single precision.  Here every   *)
(* float is a fixed-point integer with unit ONE (1.0f is ONE), products    *)
(* are truncated toward zero, and cos/sin are evaluated by their Taylor    *)
(* series at unit TRIG.  Vector indices are the C++ indices plus one.      *)
(*                                                                         *)
(* Size.  FFT_SIZE is 1024 in the source.  The model instantiates the same *)
(* code with FFT_SIZE = 2^LogFftSize for a small LogFftSize, so that the   *)
(* transform is evaluated in full on every push.                           *)
(***************************************************************************)
EXTENDS Integers, Sequences, FiniteSets, TLC

\* ------------------------------------------------------------------ bounds
\* log2 of the transform size
LogFftSize == 3
\* pushSamples calls in a behaviour
MaxPushes == 2
\* setter calls in a behaviour of whole calls
MaxSetCalls == 1
\* setNumBands calls in a behaviour of interleaved threads
MaxRacingSets == 2
\* pushSamples calls with silent input in a behaviour of silence
MaxSilentPushes == 60

\* --------------------------------------------------------- program constants
FFT_SIZE == 2 ^ LogFftSize
DefaultNumBands == 32
MinNumBands == 8
MaxNumBands == 128
\* spectrum_view.h: static constexpr size_t FFT_SIZE
SourceFftSize == 1024

\* ------------------------------------------------------------- fixed point
ONE == 10 ^ 3
TRIG == 10 ^ 4
LOGU == 2 ^ 13
\* std::numbers::pi_v<float> at unit TRIG
PI_TRIG == 31416

Abs(x) == IF x < 0 THEN 0 - x ELSE x

Min(a, b) == IF a < b THEN a ELSE b

Max(a, b) == IF a > b THEN a ELSE b

\* std::clamp that forgets the upper bound
ClampLowOnly(v, lo, hi) == IF v < lo THEN lo ELSE v

\* std::clamp(v, lo, hi)
Clamp(v, lo, hi) == IF v < lo THEN lo ELSE IF hi < v THEN hi ELSE v

\* a / b truncated toward zero (b > 0)
TruncDiv(a, b) == IF a < 0 THEN 0 - ((0 - a) \div b) ELSE a \div b

\* float * float
FxMul(a, b) == TruncDiv(a * b, ONE)

\* Taylor series of cos at unit TRIG: term is the k-th term, x2 is x*x.
RECURSIVE CosSeries(_, _, _, _)
CosSeries(x2, term, k, acc) ==
    IF k > 7 \/ term = 0 THEN acc
    ELSE LET next == 0 - TruncDiv(TruncDiv(term * x2, TRIG), (2 * k - 1) * (2 * k))
         IN  CosSeries(x2, next, k + 1, acc + next)

\* cos(2*pi*num/den) at unit TRIG, for 0 <= 4*num <= den
CosQuarter(num, den) ==
    IF num = 0 THEN TRIG
    ELSE IF 4 * num = den THEN 0
    ELSE LET x  == (2 * PI_TRIG * num) \div den
             x2 == (x * x) \div TRIG
         IN  CosSeries(x2, TRIG, 1, TRIG)

\* std::cos(2*pi*num/den) at unit ONE, any integer num, den > 0
CosTurn(num, den) ==
    LET n  == Abs(num) % den
        m  == IF 2 * n > den THEN den - n ELSE n
        c  == IF 4 * m > den THEN 0 - CosQuarter(den - 2 * m, 2 * den)
              ELSE CosQuarter(m, den)
    IN  TruncDiv(c * ONE + (IF c < 0 THEN 0 - TRIG \div 2 ELSE TRIG \div 2), TRIG)

\* std::sin(2*pi*num/den) = cos(2*pi*(num/den - 1/4))
SinTurn(num, den) == CosTurn(4 * num - den, 4 * den)

\* floor(sqrt(v)) by bisection on [lo, hi]
RECURSIVE IsqrtIn(_, _, _)
IsqrtIn(v, lo, hi) ==
    IF lo >= hi THEN lo
    ELSE LET mid == (lo + hi + 1) \div 2
         IN  IF mid * mid <= v THEN IsqrtIn(v, mid, hi) ELSE IsqrtIn(v, lo, mid - 1)

Isqrt(v) == IsqrtIn(v, 0, 46340)

Complex(re, im) == [re |-> re, im |-> im]

CAdd(a, b) == Complex(a.re + b.re, a.im + b.im)

CSub(a, b) == Complex(a.re - b.re, a.im - b.im)

CMul(a, b) == Complex(FxMul(a.re, b.re) - FxMul(a.im, b.im),
                      FxMul(a.re, b.im) + FxMul(a.im, b.re))

\* std::abs(std::complex<float>)
CAbs(a) == Isqrt(a.re * a.re + a.im * a.im)


\* ------------------------------------------------- tables (constructor)
\* hannWindow_[i] = 0.5f * (1.0f - cos(2*pi*i / (FFT_SIZE - 1)))
HannCoefficient(i, size) == (ONE - CosTurn(i, size - 1)) \div 2

HannTable(size) == [k \in 1..size |-> HannCoefficient(k - 1, size)]

\* reverseBits(n, bits): the loop of lines 295-298, i is the loop counter
RECURSIVE ReverseBitsLoop(_, _, _, _)
ReverseBitsLoop(n, bits, i, result) ==
    IF i >= bits THEN result
    ELSE ReverseBitsLoop(n \div 2, bits, i + 1, result * 2 + (n % 2))

\* reverseBits whose loop starts at 1: only bits - 1 bits are reversed
reverseBitsOneShort(n, bits) == ReverseBitsLoop(n, bits, 1, 0)

reverseBits(n, bits) == ReverseBitsLoop(n, bits, 0, 0)

\* for (size_t temp = FFT_SIZE; temp > 1; temp >>= 1) bits++;
RECURSIVE CountBits(_, _)
CountBits(temp, bits) == IF temp > 1 THEN CountBits(temp \div 2, bits + 1) ELSE bits

BitReverseTable(size) ==
    LET bits == CountBits(size, 0)
    IN  [k \in 1..size |-> reverseBits(k - 1, bits)]

\* factors[j] = (cos(angle * j), sin(angle * j)), angle = -2*pi / len
TwiddleFactor(j, len) == Complex(CosTurn(j, len), 0 - SinTurn(j, len))

\* TwiddleLoop that fills len factors per stage instead of len/2
RECURSIVE TwiddleLoopFullTurn(_, _, _)
TwiddleLoopFullTurn(len, size, acc) ==
    IF len > size THEN acc
    ELSE TwiddleLoopFullTurn(len * 2, size,
                             Append(acc, [k \in 1..len |-> TwiddleFactor(k - 1, len)]))

\* precomputeTwiddleFactors: one table of len/2 factors per stage length
RECURSIVE TwiddleLoop(_, _, _)
TwiddleLoop(len, size, acc) ==
    IF len > size THEN acc
    ELSE TwiddleLoop(len * 2, size,
                     Append(acc, [k \in 1..(len \div 2) |-> TwiddleFactor(k - 1, len)]))

precomputeTwiddleFactors(size) == TwiddleLoop(2, size, << >>)

\* ------------------------------------------------------------ fftOptimized
\* BitReversalLoop without the test i < j: every pair is swapped twice
RECURSIVE BitReversalLoopAlwaysSwap(_, _, _)
BitReversalLoopAlwaysSwap(data, lut, i) ==
    IF i >= Len(data) THEN data
    ELSE LET j == lut[i + 1]
         IN  BitReversalLoopAlwaysSwap([data EXCEPT ![i + 1] = data[j + 1],
                                                    ![j + 1] = data[i + 1]],
                                       lut, i + 1)

\* lines 242-245: for i in 0..n-1: j = LUT[i]; if (i < j) swap(data[i], data[j])
RECURSIVE BitReversalLoop(_, _, _)
BitReversalLoop(data, lut, i) ==
    IF i >= Len(data) THEN data
    ELSE LET j == lut[i + 1]
         IN  BitReversalLoop(IF i < j
                                THEN [data EXCEPT ![i + 1] = data[j + 1],
                                                  ![j + 1] = data[i + 1]]
                                ELSE data,
                             lut, i + 1)

\* Butterfly that uses twiddle entry 0 for every j
ButterflyFirstFactor(data, factors, i, j, len) ==
    LET u == data[i + j + 1]
        t == CMul(factors[1], data[i + j + (len \div 2) + 1])
    IN  [data EXCEPT ![i + j + 1] = CAdd(u, t),
                     ![i + j + (len \div 2) + 1] = CSub(u, t)]

\* lines 253-256: one butterfly on the pair (i + j, i + j + len/2)
Butterfly(data, factors, i, j, len) ==
    LET u == data[i + j + 1]
        t == CMul(factors[j + 1], data[i + j + (len \div 2) + 1])
    IN  [data EXCEPT ![i + j + 1] = CAdd(u, t),
                     ![i + j + (len \div 2) + 1] = CSub(u, t)]

\* lines 251-258: the loops over i (step len) and j (0 .. len/2 - 1)
RECURSIVE ButterflyLoop(_, _, _, _, _)
ButterflyLoop(data, factors, i, j, len) ==
    IF i >= Len(data) THEN data
    ELSE IF j >= len \div 2 THEN ButterflyLoop(data, factors, i + len, 0, len)
    ELSE ButterflyLoop(Butterfly(data, factors, i, j, len), factors, i, j + 1, len)

\* lines 251-252: the pairs (i, j) the two loops of a stage visit, in order, for
\* data of n elements
RECURSIVE ButterflyVisits(_, _, _, _)
ButterflyVisits(n, i, j, len) ==
    IF i >= n THEN << >>
    ELSE IF j >= len \div 2 THEN ButterflyVisits(n, i + len, 0, len)
    ELSE << <<i, j>> >> \o ButterflyVisits(n, i, j + 1, len)

\* lines 248-259: for (len = 2; len <= n; len *= 2, stage++)
RECURSIVE StageLoop(_, _, _, _)
StageLoop(data, twiddle, len, stage) ==
    IF len > Len(data) THEN data
    ELSE StageLoop(ButterflyLoop(data, twiddle[stage + 1], 0, 0, len),
                   twiddle, len * 2, stage + 1)

fftOptimized(data, lut, twiddle) ==
    IF Len(data) <= 1 THEN data
    ELSE StageLoop(BitReversalLoop(data, lut, 0), twiddle, 2, 0)

\* -------------------------------------------------------------- computeFFT
\* WindowedFrame that reads the ring from element 0 instead of the write cursor
WindowedFrameFromStart(buf, writeIndex, hann) ==
    [k \in 1..Len(buf) |-> Complex(FxMul(buf[k], hann[k]), 0)]

\* lines 53-56: fftBuffer_[i] = (sampleBuffer_[(writeIndex + i) % N] * hann[i], 0)
WindowedFrame(buf, writeIndex, hann) ==
    [k \in 1..Len(buf) |->
        Complex(FxMul(buf[((writeIndex + k - 1) % Len(buf)) + 1], hann[k]), 0)]

\* MagnitudesOf that yields one magnitude per element of the spectrum
MagnitudesOfFullLength(spectrum) ==
    [k \in 1..Len(spectrum) |-> (CAbs(spectrum[k]) * 2) \div Len(spectrum)]

\* lines 62-65: magnitudes_[i] = abs(fftBuffer_[i]) * (2.0f / FFT_SIZE)
MagnitudesOf(spectrum) ==
    [k \in 1..(Len(spectrum) \div 2) |-> (CAbs(spectrum[k]) * 2) \div Len(spectrum)]


\* ------------------------------------------------------------ band mapping
\* floor(log2(v)) for v >= 1
RECURSIVE FloorLog2(_)
FloorLog2(v) == IF v < 2 THEN 0 ELSE 1 + FloorLog2(v \div 2)

\* The fraction bits of log2(y / 2^14) for 2^14 <= y < 2^15, by repeated squaring
RECURSIVE Log2Fraction(_, _, _)
Log2Fraction(y, k, acc) ==
    IF k = 0 THEN acc
    ELSE LET y2 == (y * y) \div (2 ^ 14)
         IN  IF y2 >= 2 ^ 15 THEN Log2Fraction(y2 \div 2, k - 1, 2 * acc + 1)
             ELSE Log2Fraction(y2, k - 1, 2 * acc)

\* std::log10(v) for an integer v >= 1, in units of log10(2) / LOGU (the common
\* factor log10(2) cancels between log10 and pow(10, .) below)
Log10Units(v) ==
    LET e == FloorLog2(v)
    IN  e * LOGU + Log2Fraction((v * (2 ^ 14)) \div (2 ^ e), 13, 0)

\* std::log10 of the bin numbers the band mapping needs
Log10Table == [m \in 1..(FFT_SIZE + 1) |-> Log10Units(m)]

\* static_cast<size_t>(std::pow(10.0f, x)) for x >= 0 in the units of Log10Units:
\* the largest m in lo .. hi with log10(m) <= x, by bisection (log10 is monotone)
RECURSIVE Pow10Trunc(_, _, _)
Pow10Trunc(x, lo, hi) ==
    IF lo >= hi THEN lo
    ELSE LET mid == (lo + hi + 1) \div 2
         IN  IF Log10Table[mid] <= x THEN Pow10Trunc(x, mid, hi)
             ELSE Pow10Trunc(x, lo, mid - 1)

\* RawBinRange whose linear bands all have the width spectrumSize / nb
RawBinRangeFixedWidth(band, nb, log, spectrumSize) ==
    IF log
    THEN LET minLog   == Log10Table[1]
             maxLog   == Log10Table[spectrumSize]
             logStart == minLog + ((maxLog - minLog) * band) \div nb
             logEnd   == minLog + ((maxLog - minLog) * (band + 1)) \div nb
         IN  [startBin |-> Pow10Trunc(logStart, 1, 2 * spectrumSize),
              endBin   |-> Pow10Trunc(logEnd, 1, 2 * spectrumSize)]
    ELSE [startBin |-> (spectrumSize \div nb) * band,
          endBin   |-> (spectrumSize \div nb) * band + spectrumSize \div nb]

\* lines 82-94: startBin and endBin before clamping
RawBinRange(band, nb, log, spectrumSize) ==
    IF log
    THEN LET minLog   == Log10Table[1]
             maxLog   == Log10Table[spectrumSize]
             logStart == minLog + ((maxLog - minLog) * band) \div nb
             logEnd   == minLog + ((maxLog - minLog) * (band + 1)) \div nb
         IN  [startBin |-> Pow10Trunc(logStart, 1, 2 * spectrumSize),
              endBin   |-> Pow10Trunc(logEnd, 1, 2 * spectrumSize)]
    ELSE [startBin |-> (spectrumSize * band) \div nb,
          endBin   |-> (spectrumSize * (band + 1)) \div nb]

\* ClampBinRange without line 98: an empty range stays empty
ClampBinRangeNoWiden(r, spectrumSize) ==
    LET s == Max(r.startBin, 1)
        e == Min(r.endBin, spectrumSize)
    IN  [startBin |-> s, endBin |-> e]

\* ClampBinRange without the std::max of line 96: bin 0 stays in the range
ClampBinRangeKeepsDC(r, spectrumSize) ==
    LET s == r.startBin
        e == Min(r.endBin, spectrumSize)
    IN  [startBin |-> s, endBin |-> IF s >= e THEN s + 1 ELSE e]

\* lines 96-98
ClampBinRange(r, spectrumSize) ==
    LET s == Max(r.startBin, 1)
        e == Min(r.endBin, spectrumSize)
    IN  [startBin |-> s, endBin |-> IF s >= e THEN s + 1 ELSE e]

BinRange(band, nb, log, spectrumSize) ==
    ClampBinRange(RawBinRange(band, nb, log, spectrumSize), spectrumSize)

\* BinRange for the band counts setNumBands admits, tabulated once: the mapping
\* depends only on the band, the band count and the mode
BinRangeTable ==
    [log \in BOOLEAN |->
        [nb \in MinNumBands..MaxNumBands |->
            [k \in 1..nb |-> BinRange(k - 1, nb, log, FFT_SIZE \div 2)]]]

\* The bin range updateBands computes for band when numBands_ = nb
BandBins(band, nb, log) ==
    IF nb \in MinNumBands..MaxNumBands /\ band < nb
    THEN BinRangeTable[log][nb][band + 1]
    ELSE BinRange(band, nb, log, FFT_SIZE \div 2)

\* lines 101-104: sum of magnitudes_[i] for startBin <= i < endBin
RECURSIVE SumMagnitudes(_, _, _)
SumMagnitudes(mags, i, endBin) ==
    IF i >= endBin THEN 0 ELSE mags[i + 1] + SumMagnitudes(mags, i + 1, endBin)

\* BandMean without the division of line 105
BandSum(mags, r) == SumMagnitudes(mags, r.startBin, r.endBin)

\* line 105
BandMean(mags, r) == TruncDiv(SumMagnitudes(mags, r.startBin, r.endBin), r.endBin - r.startBin)

\* --------------------------------------------------------- temporal filter
\* Smooth with the old value carried over unscaled
SmoothKeepsOld(alpha, old, newValue) == old + FxMul(ONE - alpha, newValue)

\* line 108
Smooth(alpha, old, newValue) == FxMul(alpha, old) + FxMul(ONE - alpha, newValue)

\* PeakUpdate that zeroes the accumulator when the peak arrives at 0
PeakUpdateResetAtFloor(smoothedNow, peak, decay, rate) ==
    IF smoothedNow > peak
    THEN [peak |-> smoothedNow, decay |-> 0]
    ELSE IF peak - (decay + rate) <= 0
         THEN [peak |-> 0, decay |-> 0]
         ELSE [peak |-> peak - (decay + rate), decay |-> decay + rate]

\* PeakUpdate with ">=" for ">" in line 111: a band equal to its peak counts
\* as a rise
PeakUpdateRiseOnEqual(smoothedNow, peak, decay, rate) ==
    IF smoothedNow >= peak
    THEN [peak |-> smoothedNow, decay |-> 0]
    ELSE [peak |-> Max(0, peak - (decay + rate)), decay |-> decay + rate]

\* PeakUpdate with the rise branch forgetting to store the new peak
PeakUpdateKeepsPeak(smoothedNow, peak, decay, rate) ==
    IF smoothedNow > peak
    THEN [peak |-> peak, decay |-> 0]
    ELSE [peak |-> Max(0, peak - (decay + rate)), decay |-> decay + rate]

\* PeakUpdate without the std::max(0.0f, .) of line 116
PeakUpdateNoFloor(smoothedNow, peak, decay, rate) ==
    IF smoothedNow > peak
    THEN [peak |-> smoothedNow, decay |-> 0]
    ELSE [peak |-> peak - (decay + rate), decay |-> decay + rate]

\* lines 111-117 on one band: smoothedNow is bandValues_[band] after line 108
PeakUpdate(smoothedNow, peak, decay, rate) ==
    IF smoothedNow > peak
    THEN [peak |-> smoothedNow, decay |-> 0]
    ELSE [peak |-> Max(0, peak - (decay + rate)), decay |-> decay + rate]

\* std::vector<float>::resize(n, 0.0f)
Resize(seq, n) ==
    IF n <= Len(seq) THEN SubSeq(seq, 1, n)
    ELSE seq \o [k \in 1..(n - Len(seq)) |-> 0]

\* lines 78-118, one iteration of the loop for an index inside the sequences
BandIteration(b, mags, band, nb, alpha, rate, log) ==
    LET v  == BandMean(mags, BandBins(band, nb, log))
        s  == Smooth(alpha, b.bandValues[band + 1], v)
        pk == PeakUpdate(s, b.peakValues[band + 1], b.peakDecay[band + 1], rate)
    IN  [bandValues |-> [b.bandValues EXCEPT ![band + 1] = s],
         peakValues |-> [b.peakValues EXCEPT ![band + 1] = pk.peak],
         peakDecay  |-> [b.peakDecay EXCEPT ![band + 1] = pk.decay]]

\* BandLoop that smooths with the default factor of spectrum_view.h instead of
\* the current smoothing_
BandLoopDefaultSmoothing(b, mags, nb, alpha, rate, log) ==
    LET s == [k \in 1..nb |->
                 Smooth((7 * ONE) \div 10, b.bandValues[k],
                        BandMean(mags, BandBins(k - 1, nb, log)))]
        pk == [k \in 1..nb |-> PeakUpdate(s[k], b.peakValues[k], b.peakDecay[k], rate)]
    IN  [bandValues |-> [k \in 1..Len(b.bandValues) |->
                            IF k <= nb THEN s[k] ELSE b.bandValues[k]],
         peakValues |-> [k \in 1..Len(b.peakValues) |->
                            IF k <= nb THEN pk[k].peak ELSE b.peakValues[k]],
         peakDecay  |-> [k \in 1..Len(b.peakDecay) |->
                            IF k <= nb THEN pk[k].decay ELSE b.peakDecay[k]]]

\* lines 78-118, the whole loop with numBands_ = nb <= size of the sequences.
\* Iteration band reads and writes only element band of each sequence, so the
\* loop is the pointwise map; elements from nb on are not touched.
BandLoop(b, mags, nb, alpha, rate, log) ==
    LET s == [k \in 1..nb |->
                 Smooth(alpha, b.bandValues[k], BandMean(mags, BandBins(k - 1, nb, log)))]
        pk == [k \in 1..nb |-> PeakUpdate(s[k], b.peakValues[k], b.peakDecay[k], rate)]
    IN  [bandValues |-> [k \in 1..Len(b.bandValues) |->
                            IF k <= nb THEN s[k] ELSE b.bandValues[k]],
         peakValues |-> [k \in 1..Len(b.peakValues) |->
                            IF k <= nb THEN pk[k].peak ELSE b.peakValues[k]],
         peakDecay  |-> [k \in 1..Len(b.peakDecay) |->
                            IF k <= nb THEN pk[k].decay ELSE b.peakDecay[k]]]

\* ResizeBands with "<" for "!=": the sequences only ever grow
ResizeBandsGrowOnly(b, nb) ==
    IF Len(b.bandValues) < nb
    THEN [bandValues |-> Resize(b.bandValues, nb),
          peakValues |-> Resize(b.peakValues, nb),
          peakDecay  |-> Resize(b.peakDecay, nb)]
    ELSE b

\* lines 70-74
ResizeBands(b, nb) ==
    IF Len(b.bandValues) # nb
    THEN [bandValues |-> Resize(b.bandValues, nb),
          peakValues |-> Resize(b.peakValues, nb),
          peakDecay  |-> Resize(b.peakDecay, nb)]
    ELSE b

\* updateBands() called with numBands_ = nb throughout
updateBands(b, mags, nb, alpha, rate, log) ==
    BandLoop(ResizeBands(b, nb), mags, nb, alpha, rate, log)

\* ------------------------------------------------------------- ring buffer
\* WriteRing that copies at most FFT_SIZE samples of a call
RECURSIVE WriteRingFirstN(_, _, _, _)
WriteRingFirstN(buf, writeIndex, samples, i) ==
    IF i >= Len(samples) \/ i >= FFT_SIZE THEN [buf |-> buf, writeIndex |-> writeIndex]
    ELSE WriteRingFirstN([buf EXCEPT ![writeIndex + 1] = samples[i + 1]],
                         (writeIndex + 1) % FFT_SIZE, samples, i + 1)

\* WriteRing without line 42: every sample lands on the same element and the
\* cursor stays
RECURSIVE WriteRingNoAdvance(_, _, _, _)
WriteRingNoAdvance(buf, writeIndex, samples, i) ==
    IF i >= Len(samples) THEN [buf |-> buf, writeIndex |-> writeIndex]
    ELSE WriteRingNoAdvance([buf EXCEPT ![writeIndex + 1] = samples[i + 1]],
                            writeIndex, samples, i + 1)

\* lines 40-43
RECURSIVE WriteRing(_, _, _, _)
WriteRing(buf, writeIndex, samples, i) ==
    IF i >= Len(samples) THEN [buf |-> buf, writeIndex |-> writeIndex]
    ELSE WriteRing([buf EXCEPT ![writeIndex + 1] = samples[i + 1]],
                   (writeIndex + 1) % FFT_SIZE, samples, i + 1)


\* -------------------------------------------------------------- bar height
\* lines 184-185: dB value (unit ONE) of a band value and its normalized height
\* 20 * log10(value / ONE) * ONE is (Log10Units(value) - Log10Units(ONE)) times
\* 20 * log10(2) * ONE / LOGU = 0.7349
DbValue(value) ==
    IF value * 10000 > ONE
    THEN TruncDiv((Log10Units(value) - Log10Units(ONE)) * 7349, 10000)
    ELSE 0 - 80 * ONE

\* Normalized without the std::clamp of line 185
NormalizedUnclamped(value) == TruncDiv((DbValue(value) + 60 * ONE) * ONE, 60 * ONE)

Normalized(value) == Clamp(TruncDiv((DbValue(value) + 60 * ONE) * ONE, 60 * ONE), 0, ONE)

\* ------------------------------------------------------------------- state
VARIABLES
    sampleBuffer,       \* sampleBuffer_
    sampleWriteIndex,   \* sampleWriteIndex_
    fftBuffer,          \* fftBuffer_
    magnitudes,         \* magnitudes_
    bandValues,         \* bandValues_
    peakValues,         \* peakValues_
    peakDecay,          \* peakDecay_
    numBands,           \* numBands_
    decayRate,          \* decayRate_
    smoothing,          \* smoothing_
    showPeaks,          \* showPeaks_
    logScale,           \* logScale_
    hannWindow,         \* hannWindow_
    twiddleFactors,     \* twiddleFactors_
    bitReverseLUT,      \* bitReverseLUT_
    dataMutex,          \* dataMutex_: "free", or the thread holding it
    invalidCalls,       \* number of invalid() calls made (the dirty mark)
    pushPc,             \* the producer thread's position inside pushSamples
    pushArg,            \* samples / numSamples of the pushSamples call in progress
    pushBand,           \* the loop variable band of updateBands
    drawPc,             \* the display thread's position inside drawBars
    drawI,              \* the loop variable i of drawBars
    crashed,            \* the process died on an out-of-range access
    oobRead,            \* history: drawBars indexed past the end of a band sequence
    oobWrite,           \* history: updateBands indexed past the end of a band sequence
    recent,             \* history: the last FFT_SIZE samples ever pushed, zero-padded
    fftFrame,           \* history: the ring, oldest first, that computeFFT last read
    nPush,              \* history: pushSamples calls started
    nSet                \* history: setter calls made

ring == <<sampleBuffer, sampleWriteIndex>>
spectrum == <<fftBuffer, magnitudes>>
bandState == <<bandValues, peakValues, peakDecay>>
config == <<numBands, decayRate, smoothing, showPeaks, logScale>>
tables == <<hannWindow, twiddleFactors, bitReverseLUT>>
threads == <<dataMutex, pushPc, pushArg, pushBand, drawPc, drawI>>
faults == <<crashed, oobRead, oobWrite>>
history == <<recent, fftFrame, nPush, nSet>>
vars == <<ring, spectrum, bandState, config, tables, threads, faults, history,
          invalidCalls>>

Zeros(n) == [k \in 1..n |-> 0]

\* The band sequences as one record
Bands == [bandValues |-> bandValues, peakValues |-> peakValues, peakDecay |-> peakDecay]

\* The ring read from the oldest sample to the newest
Chronological(buf, writeIndex) ==
    [k \in 1..Len(buf) |-> buf[((writeIndex + k - 1) % Len(buf)) + 1]]

\* The last n elements of s, zero-padded at the front
LastN(s, n) ==
    IF Len(s) >= n THEN SubSeq(s, Len(s) - n + 1, Len(s))
    ELSE Zeros(n - Len(s)) \o s

\* Constructor (lines 9-34) and the member initialisers of spectrum_view.h
Init ==
    /\ sampleBuffer = Zeros(FFT_SIZE)
    /\ sampleWriteIndex = 0
    /\ fftBuffer = [k \in 1..FFT_SIZE |-> Complex(0, 0)]
    /\ magnitudes = Zeros(FFT_SIZE \div 2)
    /\ numBands = DefaultNumBands
    /\ bandValues = Zeros(DefaultNumBands)
    /\ peakValues = Zeros(DefaultNumBands)
    /\ peakDecay = Zeros(DefaultNumBands)
    /\ decayRate = ONE \div 20
    /\ smoothing = (7 * ONE) \div 10
    /\ showPeaks = TRUE
    /\ logScale = TRUE
    /\ hannWindow = HannTable(FFT_SIZE)
    /\ twiddleFactors = precomputeTwiddleFactors(FFT_SIZE)
    /\ bitReverseLUT = BitReverseTable(FFT_SIZE)
    /\ dataMutex = "free"
    /\ invalidCalls = 0
    /\ pushPc = "idle"
    /\ pushArg = << >>
    /\ pushBand = 0
    /\ drawPc = "idle"
    /\ drawI = 0
    /\ crashed = FALSE
    /\ oobRead = FALSE
    /\ oobWrite = FALSE
    /\ recent = Zeros(FFT_SIZE)
    /\ fftFrame = Zeros(FFT_SIZE)
    /\ nPush = 0
    /\ nSet = 0

\* ------------------------------------------------------------------ inputs
\* n distinct samples in [-1, 1]
Ramp(n) == [k \in 1..n |-> ((k * 300) % (2 * ONE + 1)) - ONE]

SampleInputs == { << >>, Ramp(3), Zeros(FFT_SIZE), Ramp(FFT_SIZE + 2) }

BandInputs == { 5, DefaultNumBands, 200 }

RateInputs == { 0, 2 * ONE }

SmoothInputs == { ONE \div 2, ONE }

\* Blocks of sound, shorter and longer than the ring
SoundInputs == { Ramp(3), Ramp(FFT_SIZE + 2) }

\* No call is in progress on either thread
Quiescent == pushPc = "idle" /\ drawPc = "idle" /\ ~crashed

\* ---------------------------------------------------- whole-call operations
\* computeFFT() on the ring (buf, writeIndex)
computeFFT(buf, writeIndex, hann, lut, twiddle) ==
    LET out == fftOptimized(WindowedFrame(buf, writeIndex, hann), lut, twiddle)
    IN  [fftBuffer |-> out, magnitudes |-> MagnitudesOf(out)]

\* RunPush whose band update may run on the magnitudes of the previous call
RunPushStaleSpectrum(samples) ==
    /\ Quiescent
    /\ \E w \in {WriteRing(sampleBuffer, sampleWriteIndex, samples, 0)} :
       \E f \in {computeFFT(w.buf, w.writeIndex, hannWindow, bitReverseLUT, twiddleFactors)} :
       \E b \in {updateBands(Bands, f.magnitudes, numBands, smoothing, decayRate, logScale),
                 updateBands(Bands, magnitudes, numBands, smoothing, decayRate, logScale)} :
           /\ sampleBuffer' = w.buf
           /\ sampleWriteIndex' = w.writeIndex
           /\ fftBuffer' = f.fftBuffer
           /\ magnitudes' = f.magnitudes
           /\ bandValues' = b.bandValues
           /\ peakValues' = b.peakValues
           /\ peakDecay' = b.peakDecay
           /\ fftFrame' = Chronological(w.buf, w.writeIndex)
    /\ invalidCalls' = invalidCalls + 1
    /\ recent' = LastN(recent \o samples, FFT_SIZE)
    /\ nPush' = nPush + 1
    /\ nSet' = nSet
    /\ UNCHANGED <<config, tables, threads, faults>>

\* pushSamples(samples, numSamples), lines 37-48, run without interruption
RunPush(samples) ==
    /\ Quiescent
    /\ \E w \in {WriteRing(sampleBuffer, sampleWriteIndex, samples, 0)} :
       \E f \in {computeFFT(w.buf, w.writeIndex, hannWindow, bitReverseLUT, twiddleFactors)} :
       \E b \in {updateBands(Bands, f.magnitudes, numBands, smoothing, decayRate, logScale)} :
           /\ sampleBuffer' = w.buf
           /\ sampleWriteIndex' = w.writeIndex
           /\ fftBuffer' = f.fftBuffer
           /\ magnitudes' = f.magnitudes
           /\ bandValues' = b.bandValues
           /\ peakValues' = b.peakValues
           /\ peakDecay' = b.peakDecay
           /\ fftFrame' = Chronological(w.buf, w.writeIndex)
    /\ invalidCalls' = invalidCalls + 1
    /\ recent' = LastN(recent \o samples, FFT_SIZE)
    /\ nPush' = nPush + 1
    /\ nSet' = nSet
    /\ UNCHANGED <<config, tables, threads, faults>>

\* A pushSamples call within the call budget of a behaviour
PushSamples(samples) ==
    /\ nPush < MaxPushes
    /\ RunPush(samples)

\* setNumBands(bands), spectrum_view.h line 33
SetNumBands(bands) ==
    /\ ~crashed
    /\ nSet < MaxSetCalls
    /\ numBands' = Clamp(bands, MinNumBands, MaxNumBands)
    /\ nSet' = nSet + 1
    /\ UNCHANGED <<ring, spectrum, bandState, decayRate, smoothing, showPeaks, logScale,
                   tables, threads, faults, recent, fftFrame, nPush, invalidCalls>>

\* setDecayRate(rate), spectrum_view.h line 35
SetDecayRate(rate) ==
    /\ ~crashed
    /\ nSet < MaxSetCalls
    /\ decayRate' = Clamp(rate, ONE \div 100, ONE)
    /\ nSet' = nSet + 1
    /\ UNCHANGED <<ring, spectrum, bandState, numBands, smoothing, showPeaks, logScale,
                   tables, threads, faults, recent, fftFrame, nPush, invalidCalls>>

\* setSmoothing(smooth), spectrum_view.h line 36
SetSmoothing(smooth) ==
    /\ ~crashed
    /\ nSet < MaxSetCalls
    /\ smoothing' = Clamp(smooth, 0, (99 * ONE) \div 100)
    /\ nSet' = nSet + 1
    /\ UNCHANGED <<ring, spectrum, bandState, numBands, decayRate, showPeaks, logScale,
                   tables, threads, faults, recent, fftFrame, nPush, invalidCalls>>

\* setShowPeaks(show), spectrum_view.h line 39
SetShowPeaks(show) ==
    /\ ~crashed
    /\ nSet < MaxSetCalls
    /\ showPeaks' = show
    /\ nSet' = nSet + 1
    /\ UNCHANGED <<ring, spectrum, bandState, numBands, decayRate, smoothing, logScale,
                   tables, threads, faults, recent, fftFrame, nPush, invalidCalls>>

\* setLogScale(log), spectrum_view.h line 40
SetLogScale(log) ==
    /\ ~crashed
    /\ nSet < MaxSetCalls
    /\ logScale' = log
    /\ nSet' = nSet + 1
    /\ UNCHANGED <<ring, spectrum, bandState, numBands, decayRate, smoothing, showPeaks,
                   tables, threads, faults, recent, fftFrame, nPush, invalidCalls>>

\* drawBars(), lines 164-217, run without interruption.  Reading bandValues_[i]
\* or peakValues_[i] past the end of the sequence is undefined: the process
\* either dies or reads whatever lies behind the sequence and goes on.
DrawBars ==
    /\ Quiescent
    /\ IF numBands > Len(bandValues)
       THEN /\ oobRead' = TRUE
            /\ crashed' \in BOOLEAN
       ELSE UNCHANGED <<oobRead, crashed>>
    /\ UNCHANGED <<ring, spectrum, bandState, config, tables, threads, oobWrite,
                   history, invalidCalls>>

Next ==
    \/ \E samples \in SampleInputs : PushSamples(samples)
    \/ \E bands \in BandInputs : SetNumBands(bands)
    \/ \E rate \in RateInputs : SetDecayRate(rate)
    \/ \E smooth \in SmoothInputs : SetSmoothing(smooth)
    \/ \E show \in BOOLEAN : SetShowPeaks(show)
    \/ \E log \in BOOLEAN : SetLogScale(log)
    \/ DrawBars

Spec == Init /\ [][Next]_vars


\* ------------------------------------------------------- configuration only
\* The host calls the setters with arbitrary arguments: below, at, inside and
\* above each supported range.
ConfigBandInputs == 0..140

ConfigRateInputs == { 0 - ONE, 0, 9, ONE \div 100, 11, ONE \div 2, 999, ONE, 1001, 2 * ONE }

ConfigSmoothInputs == { 0 - ONE, 0 - 1, 0, 1, ONE \div 2, 989, (99 * ONE) \div 100, 991, ONE, 2 * ONE }

ConfigNext ==
    \/ \E bands \in ConfigBandInputs : SetNumBands(bands)
    \/ \E rate \in ConfigRateInputs : SetDecayRate(rate)
    \/ \E smooth \in ConfigSmoothInputs : SetSmoothing(smooth)
    \/ \E show \in BOOLEAN : SetShowPeaks(show)
    \/ \E log \in BOOLEAN : SetLogScale(log)

ConfigSpec == Init /\ [][ConfigNext]_vars

\* ------------------------------------------------------ every band mapping
\* The state after construction, setNumBands(bands) and setLogScale(log), for
\* every band count setNumBands can store and both mapping modes; the pushes
\* that follow resize the band sequences and average the bins of every band.
BandMapInit ==
    \E bands \in MinNumBands..MaxNumBands, log \in BOOLEAN :
        /\ sampleBuffer = Zeros(FFT_SIZE)
        /\ sampleWriteIndex = 0
        /\ fftBuffer = [k \in 1..FFT_SIZE |-> Complex(0, 0)]
        /\ magnitudes = Zeros(FFT_SIZE \div 2)
        /\ numBands = Clamp(bands, MinNumBands, MaxNumBands)
        /\ bandValues = Zeros(DefaultNumBands)
        /\ peakValues = Zeros(DefaultNumBands)
        /\ peakDecay = Zeros(DefaultNumBands)
        /\ decayRate = ONE \div 20
        /\ smoothing = (7 * ONE) \div 10
        /\ showPeaks = TRUE
        /\ logScale = log
        /\ hannWindow = HannTable(FFT_SIZE)
        /\ twiddleFactors = precomputeTwiddleFactors(FFT_SIZE)
        /\ bitReverseLUT = BitReverseTable(FFT_SIZE)
        /\ dataMutex = "free"
        /\ invalidCalls = 0
        /\ pushPc = "idle"
        /\ pushArg = << >>
        /\ pushBand = 0
        /\ drawPc = "idle"
        /\ drawI = 0
        /\ crashed = FALSE
        /\ oobRead = FALSE
        /\ oobWrite = FALSE
        /\ recent = Zeros(FFT_SIZE)
        /\ fftFrame = Zeros(FFT_SIZE)
        /\ nPush = 0
        /\ nSet = 2

BandMapNext == \E samples \in SoundInputs : PushSamples(samples)

BandMapSpec == BandMapInit /\ [][BandMapNext]_vars

\* ------------------------------------------------------- silence after sound
\* The view has been configured and has received one block of sound; from then
\* on the producer pushes blocks of FFT_SIZE zero samples.
SilenceSmoothInputs == { 0, (7 * ONE) \div 10, (99 * ONE) \div 100 }

SilenceRateInputs == { ONE \div 100, ONE \div 20, ONE }

\* The state after construction, setSmoothing(smooth), setDecayRate(rate) and
\* pushSamples(samples)
SilenceInit ==
    \E smooth \in SilenceSmoothInputs, rate \in SilenceRateInputs, samples \in SoundInputs :
    \E w \in {WriteRing(Zeros(FFT_SIZE), 0, samples, 0)} :
    \E f \in {computeFFT(w.buf, w.writeIndex, HannTable(FFT_SIZE), BitReverseTable(FFT_SIZE),
                         precomputeTwiddleFactors(FFT_SIZE))} :
    \E b \in {updateBands([bandValues |-> Zeros(DefaultNumBands), peakValues |-> Zeros(DefaultNumBands),
                           peakDecay |-> Zeros(DefaultNumBands)], f.magnitudes, DefaultNumBands,
                          smooth, rate, TRUE)} :
        /\ sampleBuffer = w.buf
        /\ sampleWriteIndex = w.writeIndex
        /\ fftBuffer = f.fftBuffer
        /\ magnitudes = f.magnitudes
        /\ numBands = DefaultNumBands
        /\ bandValues = b.bandValues
        /\ peakValues = b.peakValues
        /\ peakDecay = b.peakDecay
        /\ decayRate = rate
        /\ smoothing = smooth
        /\ showPeaks = TRUE
        /\ logScale = TRUE
        /\ hannWindow = HannTable(FFT_SIZE)
        /\ twiddleFactors = precomputeTwiddleFactors(FFT_SIZE)
        /\ bitReverseLUT = BitReverseTable(FFT_SIZE)
        /\ dataMutex = "free"
        /\ invalidCalls = 1
        /\ pushPc = "idle"
        /\ pushArg = << >>
        /\ pushBand = 0
        /\ drawPc = "idle"
        /\ drawI = 0
        /\ crashed = FALSE
        /\ oobRead = FALSE
        /\ oobWrite = FALSE
        /\ recent = LastN(samples, FFT_SIZE)
        /\ fftFrame = Chronological(w.buf, w.writeIndex)
        /\ nPush = 1
        /\ nSet = 2

\* pushSamples with FFT_SIZE zero samples
PushSilence ==
    /\ nPush < 1 + MaxSilentPushes
    /\ RunPush(Zeros(FFT_SIZE))

SilenceNext == PushSilence

\* A pushSamples call returns: the count of calls advances.  Under SilenceNext
\* every such step is a PushSilence step, and one is possible whenever the
\* budget of calls is not used up.
PushReturns ==
    /\ nPush < 1 + MaxSilentPushes
    /\ nPush' = nPush + 1

\* The producer keeps calling: the editor's timer fires again and again
SilenceSpec == SilenceInit /\ [][SilenceNext]_vars /\ WF_nPush(PushReturns)


\* ---------------------------------------------- the calls, statement by statement
\* Two threads: the producer inside pushSamples and the display thread inside
\* drawBars.  The setters take no lock (spectrum_view.h lines 33-40) and may run
\* between any two steps.  numBands_ is read once per step.
ConcSampleInputs == { Ramp(3) }

ConcBandInputs == { 5, DefaultNumBands }

\* setNumBands(bands), spectrum_view.h line 33, called from a third thread: it
\* takes no lock, so it runs between any two steps of the other two threads
RacingSetNumBands(bands) ==
    /\ ~crashed
    /\ nSet < MaxRacingSets
    /\ numBands' = Clamp(bands, MinNumBands, MaxNumBands)
    /\ nSet' = nSet + 1
    /\ UNCHANGED <<ring, spectrum, bandState, decayRate, smoothing, showPeaks, logScale,
                   tables, threads, faults, recent, fftFrame, nPush, invalidCalls>>

\* pushSamples is entered
PushCall(samples) ==
    /\ ~crashed
    /\ pushPc = "idle"
    /\ nPush < MaxPushes
    /\ pushPc' = "lock"
    /\ pushArg' = samples
    /\ nPush' = nPush + 1
    /\ UNCHANGED <<ring, spectrum, bandState, config, tables, dataMutex, pushBand,
                   drawPc, drawI, faults, recent, fftFrame, nSet, invalidCalls>>

\* line 38: std::lock_guard<std::mutex> lock(dataMutex_)
PushLock ==
    /\ ~crashed
    /\ pushPc = "lock"
    /\ dataMutex = "free"
    /\ dataMutex' = "push"
    /\ pushPc' = "write"
    /\ UNCHANGED <<ring, spectrum, bandState, config, tables, pushArg, pushBand,
                   drawPc, drawI, faults, history, invalidCalls>>

\* PushWrite that goes on to updateBands without computeFFT
PushWriteSkipsFFT ==
    /\ ~crashed
    /\ pushPc = "write"
    /\ \E w \in {WriteRing(sampleBuffer, sampleWriteIndex, pushArg, 0)} :
           /\ sampleBuffer' = w.buf
           /\ sampleWriteIndex' = w.writeIndex
    /\ recent' = LastN(recent \o pushArg, FFT_SIZE)
    /\ pushPc' = "check"
    /\ UNCHANGED <<spectrum, bandState, config, tables, dataMutex, pushArg, pushBand,
                   drawPc, drawI, faults, fftFrame, nPush, nSet, invalidCalls>>

\* lines 40-43
PushWrite ==
    /\ ~crashed
    /\ pushPc = "write"
    /\ \E w \in {WriteRing(sampleBuffer, sampleWriteIndex, pushArg, 0)} :
           /\ sampleBuffer' = w.buf
           /\ sampleWriteIndex' = w.writeIndex
    /\ recent' = LastN(recent \o pushArg, FFT_SIZE)
    /\ pushPc' = "fft"
    /\ UNCHANGED <<spectrum, bandState, config, tables, dataMutex, pushArg, pushBand,
                   drawPc, drawI, faults, fftFrame, nPush, nSet, invalidCalls>>

\* line 45: computeFFT()
PushComputeFFT ==
    /\ ~crashed
    /\ pushPc = "fft"
    /\ \E f \in {computeFFT(sampleBuffer, sampleWriteIndex, hannWindow, bitReverseLUT,
                            twiddleFactors)} :
           /\ fftBuffer' = f.fftBuffer
           /\ magnitudes' = f.magnitudes
    /\ fftFrame' = Chronological(sampleBuffer, sampleWriteIndex)
    /\ pushPc' = "check"
    /\ UNCHANGED <<ring, bandState, config, tables, dataMutex, pushArg, pushBand,
                   drawPc, drawI, faults, recent, nPush, nSet, invalidCalls>>

\* PushCheckSize that resizes on every call
PushCheckSizeAlways ==
    /\ ~crashed
    /\ pushPc = "check"
    /\ pushPc' = "resizeBand"
    /\ pushBand' = 0
    /\ UNCHANGED <<ring, spectrum, bandState, config, tables, dataMutex, pushArg,
                   drawPc, drawI, faults, history, invalidCalls>>

\* line 70: if (bandValues_.size() != numBands_)
PushCheckSize ==
    /\ ~crashed
    /\ pushPc = "check"
    /\ pushPc' = IF Len(bandValues) # numBands THEN "resizeBand" ELSE "loop"
    /\ pushBand' = 0
    /\ UNCHANGED <<ring, spectrum, bandState, config, tables, dataMutex, pushArg,
                   drawPc, drawI, faults, history, invalidCalls>>

\* line 71
PushResizeBand ==
    /\ ~crashed
    /\ pushPc = "resizeBand"
    /\ bandValues' = Resize(bandValues, numBands)
    /\ pushPc' = "resizePeak"
    /\ UNCHANGED <<ring, spectrum, peakValues, peakDecay, config, tables, dataMutex,
                   pushArg, pushBand, drawPc, drawI, faults, history, invalidCalls>>

\* line 72
PushResizePeak ==
    /\ ~crashed
    /\ pushPc = "resizePeak"
    /\ peakValues' = Resize(peakValues, numBands)
    /\ pushPc' = "resizeDecay"
    /\ UNCHANGED <<ring, spectrum, bandValues, peakDecay, config, tables, dataMutex,
                   pushArg, pushBand, drawPc, drawI, faults, history, invalidCalls>>

\* line 73
PushResizeDecay ==
    /\ ~crashed
    /\ pushPc = "resizeDecay"
    /\ peakDecay' = Resize(peakDecay, numBands)
    /\ pushPc' = "loop"
    /\ UNCHANGED <<ring, spectrum, bandValues, peakValues, config, tables, dataMutex,
                   pushArg, pushBand, drawPc, drawI, faults, history, invalidCalls>>

\* Index band lies inside all three band sequences
InsideBands(band) ==
    band < Len(bandValues) /\ band < Len(peakValues) /\ band < Len(peakDecay)

\* lines 78-118: the loop test and one iteration.  Writing element band past the
\* end of a sequence is undefined: the process either dies or the write lands
\* outside the sequences and the thread goes on.
PushLoop ==
    /\ ~crashed
    /\ pushPc = "loop"
    /\ IF pushBand < numBands
       THEN /\ pushBand' = pushBand + 1
            /\ pushPc' = pushPc
            /\ IF InsideBands(pushBand)
               THEN /\ \E b \in {BandIteration(Bands, magnitudes, pushBand, numBands,
                                               smoothing, decayRate, logScale)} :
                           /\ bandValues' = b.bandValues
                           /\ peakValues' = b.peakValues
                           /\ peakDecay' = b.peakDecay
                    /\ UNCHANGED faults
               ELSE /\ oobWrite' = TRUE
                    /\ crashed' \in BOOLEAN
                    /\ UNCHANGED <<bandState, oobRead>>
       ELSE /\ pushPc' = "invalid"
            /\ UNCHANGED <<pushBand, bandState, faults>>
    /\ UNCHANGED <<ring, spectrum, config, tables, dataMutex, pushArg, drawPc, drawI,
                   history, invalidCalls>>

\* line 47: invalid()
PushInvalid ==
    /\ ~crashed
    /\ pushPc = "invalid"
    /\ invalidCalls' = invalidCalls + 1
    /\ pushPc' = "unlock"
    /\ UNCHANGED <<ring, spectrum, bandState, config, tables, dataMutex, pushArg,
                   pushBand, drawPc, drawI, faults, history>>

\* line 48: the lock_guard is destroyed and pushSamples returns
PushUnlock ==
    /\ ~crashed
    /\ pushPc = "unlock"
    /\ dataMutex' = "free"
    /\ pushPc' = "idle"
    /\ pushArg' = << >>
    /\ UNCHANGED <<ring, spectrum, bandState, config, tables, pushBand, drawPc, drawI,
                   faults, history, invalidCalls>>

\* drawBars is entered
DrawCall ==
    /\ ~crashed
    /\ drawPc = "idle"
    /\ drawPc' = "lock"
    /\ UNCHANGED <<ring, spectrum, bandState, config, tables, dataMutex, pushPc, pushArg,
                   pushBand, drawI, faults, history, invalidCalls>>

\* DrawLock that does not wait for the mutex
DrawLockNoWait ==
    /\ ~crashed
    /\ drawPc = "lock"
    /\ dataMutex' = "draw"
    /\ drawPc' = "loop"
    /\ drawI' = 0
    /\ UNCHANGED <<ring, spectrum, bandState, config, tables, pushPc, pushArg, pushBand,
                   faults, history, invalidCalls>>

\* line 165: std::lock_guard<std::mutex> lock(dataMutex_)
DrawLock ==
    /\ ~crashed
    /\ drawPc = "lock"
    /\ dataMutex = "free"
    /\ dataMutex' = "draw"
    /\ drawPc' = "loop"
    /\ drawI' = 0
    /\ UNCHANGED <<ring, spectrum, bandState, config, tables, pushPc, pushArg, pushBand,
                   faults, history, invalidCalls>>

\* lines 179-216: the loop test and one iteration, which reads bandValues_[i]
\* and, when showPeaks_ is set, peakValues_[i]
DrawLoop ==
    /\ ~crashed
    /\ drawPc = "loop"
    /\ IF drawI < numBands
       THEN /\ drawI' = drawI + 1
            /\ drawPc' = drawPc
            /\ IF drawI < Len(bandValues) /\ (showPeaks => drawI < Len(peakValues))
               THEN UNCHANGED faults
               ELSE /\ oobRead' = TRUE
                    /\ crashed' \in BOOLEAN
                    /\ UNCHANGED oobWrite
       ELSE /\ drawPc' = "unlock"
            /\ UNCHANGED <<drawI, faults>>
    /\ UNCHANGED <<ring, spectrum, bandState, config, tables, dataMutex, pushPc, pushArg,
                   pushBand, history, invalidCalls>>

\* line 217: the lock_guard is destroyed and drawBars returns
DrawUnlock ==
    /\ ~crashed
    /\ drawPc = "unlock"
    /\ dataMutex' = "free"
    /\ drawPc' = "idle"
    /\ drawI' = 0
    /\ UNCHANGED <<ring, spectrum, bandState, config, tables, pushPc, pushArg, pushBand,
                   faults, history, invalidCalls>>

ConcNext ==
    \/ \E samples \in ConcSampleInputs : PushCall(samples)
    \/ PushLock
    \/ PushWrite
    \/ PushComputeFFT
    \/ PushCheckSize
    \/ PushResizeBand
    \/ PushResizePeak
    \/ PushResizeDecay
    \/ PushLoop
    \/ PushInvalid
    \/ PushUnlock
    \/ DrawCall
    \/ DrawLock
    \/ DrawLoop
    \/ DrawUnlock
    \/ \E bands \in ConcBandInputs : RacingSetNumBands(bands)

ConcSpec == Init /\ [][ConcNext]_vars

\* A statement of pushSamples between taking and releasing the lock is executed:
\* the thread's position or its loop counter changes.  Under ConcNext only the
\* pushing thread changes them, and it can always do so while it is alive.
PushAdvances ==
    /\ ~crashed
    /\ pushPc \in {"write", "fft", "check", "resizeBand", "resizePeak", "resizeDecay",
                   "loop", "invalid", "unlock"}
    /\ pushPc' \in {"fft", "check", "resizeBand", "resizePeak", "resizeDecay", "loop",
                    "invalid", "unlock", "idle"}
    /\ pushBand' \in 0..(MaxNumBands + 1)

\* Fair scheduling: a thread that can run a statement eventually runs it, and a
\* thread waiting for dataMutex_ gets it if it is free again and again.
FairConcSpec ==
    /\ ConcSpec
    /\ WF_<<pushPc, pushBand>>(PushAdvances)
    /\ WF_vars(DrawLoop \/ DrawUnlock)
    /\ SF_vars(PushLock)
    /\ SF_vars(DrawLock)


\* ------------------------------------------------------------------ claims
PushCritical ==
    {"write", "fft", "check", "resizeBand", "resizePeak", "resizeDecay", "loop",
     "invalid", "unlock"}

DrawCritical == {"loop", "unlock"}

ResizeSteps == {"resizeBand", "resizePeak", "resizeDecay"}

ZeroBands(n) == [bandValues |-> Zeros(n), peakValues |-> Zeros(n), peakDecay |-> Zeros(n)]

\* C1 (as claimed): while drawBars iterates bands 0 .. numBands_-1 the smoothed
\* and the peak sequence both have length numBands_, and drawBars has never
\* read an index outside either sequence.
C1_NoTornRead ==
    /\ drawPc = "loop" => Len(bandValues) = numBands /\ Len(peakValues) = numBands
    /\ ~oobRead

\* C2: pushSamples and drawBars are never inside their critical sections at the
\* same time, and whoever is inside holds dataMutex_: drawBars never runs while
\* a push is between acquiring and releasing the lock.
C2_MutualExclusion ==
    /\ ~(pushPc \in PushCritical /\ drawPc \in DrawCritical)
    /\ pushPc \in PushCritical => dataMutex = "push"
    /\ drawPc \in DrawCritical => dataMutex = "draw"

\* C2 witness: drawBars is inside its loop while a push waits for the lock
C2_Witness == drawPc = "loop" /\ drawI > 0 /\ pushPc = "lock"

\* C3 (as claimed): from the size check of updateBands to the end of its loop
\* numBands_ keeps the value the sequences were sized for, and no push has
\* written a band index outside the sequences.
C3_BandCountStableInPush ==
    /\ pushPc = "loop" =>
          /\ Len(bandValues) = numBands
          /\ Len(peakValues) = numBands
          /\ Len(peakDecay) = numBands
    /\ ~oobWrite

PipelineSteps ==
    { <<"idle", "lock">>, <<"lock", "write">>, <<"write", "fft">>, <<"fft", "check">>,
      <<"check", "resizeBand">>, <<"check", "loop">>, <<"resizeBand", "resizePeak">>,
      <<"resizePeak", "resizeDecay">>, <<"resizeDecay", "loop">>, <<"loop", "invalid">>,
      <<"invalid", "unlock">>, <<"unlock", "idle">> }

\* C4: a push holds the lock from the ring write to its return and does, in this
\* order, ring write, computeFFT, updateBands, invalid(), unlock; each part of the
\* state changes only in its own stage; and whenever no push is in progress the
\* frame computeFFT last read is the most recent FFT_SIZE samples pushed.
C4_SynchronousPipeline ==
    /\ [](pushPc \in PushCritical => dataMutex = "push")
    /\ [](pushPc = "idle" => fftFrame = recent)
    /\ [][/\ pushPc' # pushPc => <<pushPc, pushPc'>> \in PipelineSteps
          /\ ring' # ring => pushPc = "write"
          /\ spectrum' # spectrum => pushPc = "fft"
          /\ bandState' # bandState => pushPc \in ResizeSteps \cup {"loop"}
          /\ invalidCalls' # invalidCalls => pushPc = "invalid"
          /\ (dataMutex = "push" /\ dataMutex' # "push") => pushPc = "unlock"]_vars

\* C4 witness: drawBars has started reading after the second push returned
C4_Witness ==
    /\ pushPc = "idle" /\ nPush = 2 /\ invalidCalls = 2
    /\ drawPc = "loop" /\ drawI > 0
    /\ fftFrame # Zeros(FFT_SIZE)

\* C5 (as claimed): a setNumBands call that changes the band count leaves the
\* band state such that the resize of updateBands yields numBands_ zeros in all
\* three sequences.
C5_ChangeResetsBands ==
    [][numBands' # numBands => ResizeBands(Bands', numBands') = ZeroBands(numBands')]_vars

C7_LengthsAfterPush ==
    [][nPush' # nPush =>
          /\ Len(bandValues') = numBands'
          /\ Len(peakValues') = numBands'
          /\ Len(peakDecay') = numBands']_vars

\* C7 witness: a push has run after the band count was lowered and after it was
\* raised
C7_Witness ==
    /\ nPush >= 1
    /\ numBands # DefaultNumBands
    /\ Len(bandValues) = numBands /\ Len(peakValues) = numBands /\ Len(peakDecay) = numBands

\* C8 (as claimed): pushSamples with zero samples changes none of the ring, the
\* write cursor, the spectrum, the smoothed, peak and decay sequences.
C8_EmptyPushIsNoOp ==
    [][PushSamples(<< >>) => UNCHANGED <<ring, spectrum, bandState>>]_vars

\* C9: the ring, read from the write cursor on, is the last FFT_SIZE samples of
\* everything pushed so far (zeros before that); and writing a block longer than
\* FFT_SIZE gives the same ring and cursor as advancing the cursor by the length
\* of the discarded prefix and writing only the last FFT_SIZE samples.
C9_RingHoldsMostRecent ==
    /\ Chronological(sampleBuffer, sampleWriteIndex) = recent
    /\ \A samples \in SampleInputs :
          Len(samples) > FFT_SIZE =>
             WriteRing(sampleBuffer, sampleWriteIndex, samples, 0)
               = WriteRing(sampleBuffer,
                           (sampleWriteIndex + Len(samples) - FFT_SIZE) % FFT_SIZE,
                           LastN(samples, FFT_SIZE), 0)

\* C9 witness: a block longer than the ring has been pushed after a short one,
\* so the ring has wrapped and the cursor is in its middle
C9_Witness ==
    /\ nPush = 2
    /\ recent = LastN(Ramp(3) \o Ramp(FFT_SIZE + 2), FFT_SIZE)
    /\ sampleWriteIndex = 5

\* C10: across a push, a band whose new smoothed value exceeds the peak stored
\* before (the rise branch) ends with peak = smoothed; so peak >= smoothed
\* holds after the push for every band except those that took the decay branch.
C10_PeakAfterPush ==
    [][nPush' # nPush =>
          LET before == ResizeBands(Bands, numBands).peakValues
          IN  \A k \in 1..Len(bandValues') :
                 LET rise == bandValues'[k] > before[k]
                 IN  /\ rise => peakValues'[k] = bandValues'[k]
                     /\ peakValues'[k] >= bandValues'[k] \/ ~rise]_vars

\* C10 witness: after a push one band sits on its smoothed value and another
\* band's peak has decayed below its smoothed value
C10_Witness ==
    /\ nPush >= 1
    /\ \E k \in 1..Len(bandValues) : peakValues[k] = bandValues[k] /\ bandValues[k] > 0
    /\ \E k \in 1..Len(bandValues) : peakValues[k] < bandValues[k]

\* C11: in every reachable state every smoothed band value, every peak value
\* and every decay accumulator is non-negative.
C11_NonNegative ==
    /\ \A k \in 1..Len(bandValues) : bandValues[k] >= 0
    /\ \A k \in 1..Len(peakValues) : peakValues[k] >= 0
    /\ \A k \in 1..Len(peakDecay) : peakDecay[k] >= 0

\* C11 witness: samples of both signs are in the frame, some band is above zero
\* and some band's peak has been lowered onto the floor
C11_Witness ==
    /\ nPush >= 1
    /\ \E k \in 1..FFT_SIZE : fftFrame[k] < 0
    /\ \E k \in 1..FFT_SIZE : fftFrame[k] > 0
    /\ \E k \in 1..Len(bandValues) : bandValues[k] > 0
    /\ \E k \in 1..Len(peakValues) : peakValues[k] = 0 /\ peakDecay[k] > 0

\* Every smoothed value and every peak is zero
AtRest ==
    /\ \A k \in 1..Len(bandValues) : bandValues[k] = 0
    /\ \A k \in 1..Len(peakValues) : peakValues[k] = 0

\* C12: when only zero samples are pushed after sound, then for every accepted
\* smoothing factor and decay rate the smoothed values and the peaks all reach
\* zero (less than one unit of the fixed-point scale) after finitely many pushes.
C12_SilenceToRest == <>AtRest

\* C12 witness: the display is at rest under the heaviest smoothing after having
\* shown sound
C12_Witness ==
    /\ AtRest
    /\ smoothing = (99 * ONE) \div 100
    /\ nPush > 2
    /\ recent = Zeros(FFT_SIZE)

\* The value of the range lo..hi nearest to x: x itself or one of the two ends
Nearest(x, lo, hi) ==
    CHOOSE y \in {x, lo, hi} :
        /\ lo <= y /\ y <= hi
        /\ \A z \in {x, lo, hi} : (lo <= z /\ z <= hi) => Abs(y - x) <= Abs(z - x)

ElementOrZero(seq, k) == IF k <= Len(seq) THEN seq[k] ELSE 0

\* C14: a setter call changes none of the ring, the spectrum and the three band
\* sequences; the push that follows computes every band 1..numBands_ with the
\* stored band count, mapping mode, smoothing factor and decay rate.
C14_SetterActsOnNextPush ==
    [][/\ nSet' # nSet => UNCHANGED <<ring, spectrum, bandState>>
       /\ nPush' # nPush =>
            /\ Len(bandValues') = numBands
            /\ \A k \in 1..numBands :
                 LET s == Smooth(smoothing, ElementOrZero(bandValues, k),
                                 BandMean(magnitudes', BandBins(k - 1, numBands, logScale)))
                     pk == PeakUpdate(s, ElementOrZero(peakValues, k),
                                      ElementOrZero(peakDecay, k), decayRate)
                 IN  /\ bandValues'[k] = s
                     /\ peakValues'[k] = pk.peak
                     /\ peakDecay'[k] = pk.decay]_vars

\* C14 witness: after setNumBands stored the smallest band count a push has
\* brought the sequences to that length and computed a non-zero band
C14_Witness ==
    /\ nSet >= 1
    /\ numBands = MinNumBands
    /\ Len(bandValues) = MinNumBands
    /\ \E k \in 1..MinNumBands : bandValues[k] > 0

Bit(n, j) == (n \div (2 ^ j)) % 2

\* C17: entry i of the bit-reversal table is i with its log2(FFT_SIZE) low bits
\* reversed: it is below FFT_SIZE and its bit log2(FFT_SIZE)-1-j is bit j of i;
\* the table built for size 8 is 0,4,2,6,1,5,3,7.
C17_BitReversalTable ==
    /\ Len(bitReverseLUT) = FFT_SIZE
    /\ \A i \in 0..(FFT_SIZE - 1) :
          /\ bitReverseLUT[i + 1] \in 0..(FFT_SIZE - 1)
          /\ \A j \in 0..(LogFftSize - 1) :
                Bit(bitReverseLUT[i + 1], LogFftSize - 1 - j) = Bit(i, j)
    /\ BitReverseTable(8) = <<0, 4, 2, 6, 1, 5, 3, 7>>

\* C17 witness: the table, whose entry 1 is FFT_SIZE / 2, has been used by a
\* transform of sound
C17_Witness ==
    /\ bitReverseLUT[2] = FFT_SIZE \div 2
    /\ nPush >= 1
    /\ \E k \in 1..Len(magnitudes) : magnitudes[k] > 0

\* The values drawBars converts: every smoothed band value and every peak value
DrawnValues ==
    {bandValues[k] : k \in 1..Len(bandValues)} \cup {peakValues[k] : k \in 1..Len(peakValues)}

\* C18: for every value drawBars can convert, the decibel value is at least
\* -80 dB, it is exactly -80 dB when the value is at or below the threshold
\* 0.0001, and the normalized height lies in [0, 1].
C18_DecibelFloor ==
    \A value \in DrawnValues :
        /\ DbValue(value) >= 0 - 80 * ONE
        /\ value * 10000 <= ONE => DbValue(value) = 0 - 80 * ONE
        /\ Normalized(value) >= 0
        /\ Normalized(value) <= ONE

\* C18 witness: after a push of sound one band is at the floor, one is drawn
\* with a height strictly between 0 and 1
C18_Witness ==
    /\ nPush >= 1
    /\ \E value \in DrawnValues : value = 0 /\ DbValue(value) = 0 - 80 * ONE
    /\ \E value \in DrawnValues : Normalized(value) > 0 /\ Normalized(value) < ONE

\* C19: the ring, the transform buffer, the magnitudes, the window table, the
\* bit-reversal table and the twiddle tables keep the lengths the constructor
\* gave them; the length of a band sequence changes only in a push that finds
\* the sequences with a length other than the band count.
C19_SizedOnce ==
    /\ [](/\ Len(sampleBuffer) = FFT_SIZE
          /\ Len(fftBuffer) = FFT_SIZE
          /\ Len(magnitudes) = FFT_SIZE \div 2
          /\ Len(hannWindow) = FFT_SIZE
          /\ Len(bitReverseLUT) = FFT_SIZE
          /\ Len(twiddleFactors) = LogFftSize
          /\ \A stage \in 1..LogFftSize : Len(twiddleFactors[stage]) = 2 ^ (stage - 1))
    /\ [][(\/ Len(bandValues') # Len(bandValues)
           \/ Len(peakValues') # Len(peakValues)
           \/ Len(peakDecay') # Len(peakDecay))
             => (nPush' # nPush /\ Len(bandValues) # numBands)]_vars

\* C19 witness: a push after setNumBands has grown the band sequences to the
\* largest band count while the other buffers kept their lengths
C19_Witness ==
    /\ nPush >= 1
    /\ Len(bandValues) = MaxNumBands
    /\ Len(peakDecay) = MaxNumBands
    /\ Len(magnitudes) = FFT_SIZE \div 2
    /\ \E k \in 1..Len(magnitudes) : magnitudes[k] > 0

\* C20: for the current band count and mapping mode, every band k < numBands_
\* averages a bin range with 1 <= startBin < endBin <= FFT_SIZE / 2: bin 0 is in
\* no range and no index from FFT_SIZE / 2 on is read.
C20_BinRangeInsideSpectrum ==
    \A k \in 0..(numBands - 1) :
        LET r == BandBins(k, numBands, logScale)
        IN  /\ 1 <= r.startBin
            /\ r.startBin < r.endBin
            /\ r.endBin <= FFT_SIZE \div 2
            /\ r.endBin <= Len(magnitudes)

\* C20 witness: a push has averaged the bands of a linear mapping with 100
\* bands, in which the first band's computed range starts at bin 0 and some
\* band's computed range is empty
C20_Witness ==
    /\ nPush >= 1
    /\ ~logScale
    /\ numBands = 100
    /\ Len(bandValues) = 100
    /\ RawBinRange(0, numBands, logScale, FFT_SIZE \div 2).startBin = 0
    /\ \E k \in 0..(numBands - 1) :
          LET raw == RawBinRange(k, numBands, logScale, FFT_SIZE \div 2)
          IN  raw.startBin >= raw.endBin
    /\ \E k \in 1..Len(bandValues) : bandValues[k] > 0

\* The range of band k after lines 96-97 and before line 98 is empty
Degenerate(k) ==
    LET raw == RawBinRange(k, numBands, logScale, FFT_SIZE \div 2)
    IN  (IF raw.startBin > 1 THEN raw.startBin ELSE 1)
           >= (IF raw.endBin < FFT_SIZE \div 2 THEN raw.endBin ELSE FFT_SIZE \div 2)

\* C21: for every band of the current band count and mode, a range whose
\* clamped start is at or beyond its clamped end is averaged as the one bin at
\* the clamped start, and the divisor endBin - startBin of the mean is at least 1.
C21_DegenerateRangeWidened ==
    \A k \in 0..(numBands - 1) :
        LET raw == RawBinRange(k, numBands, logScale, FFT_SIZE \div 2)
            r == BandBins(k, numBands, logScale)
        IN  /\ Degenerate(k) =>
                 /\ r.startBin = (IF raw.startBin > 1 THEN raw.startBin ELSE 1)
                 /\ r.endBin = r.startBin + 1
            /\ r.endBin - r.startBin >= 1

\* C21 witness: a push in logarithmic mode with the largest band count has
\* averaged a band whose range was empty before widening and obtained a
\* non-zero value from its single bin
C21_Witness ==
    /\ nPush >= 1
    /\ logScale
    /\ numBands = MaxNumBands
    /\ Len(bandValues) = MaxNumBands
    /\ \E k \in 0..(numBands - 1) : Degenerate(k) /\ bandValues[k + 1] > 0
    /\ \E k \in 0..(numBands - 1) : ~Degenerate(k)

\* floor(x / d) for x >= 0 and d > 0, by its defining inequalities
FloorOf(x, d) == CHOOSE q \in 0..x : q * d <= x /\ x < (q + 1) * d

\* The sum of the elements of a sequence
RECURSIVE SeqSum(_)
SeqSum(seq) == IF seq = << >> THEN 0 ELSE Head(seq) + SeqSum(Tail(seq))

\* The range lines 96-98 make of the linear range of band k
LinearClamped(k) ==
    LET s0 == FloorOf((FFT_SIZE \div 2) * k, numBands)
        e0 == FloorOf((FFT_SIZE \div 2) * (k + 1), numBands)
        s == IF s0 > 1 THEN s0 ELSE 1
        e == IF e0 < FFT_SIZE \div 2 THEN e0 ELSE FFT_SIZE \div 2
    IN  [startBin |-> s, endBin |-> IF s >= e THEN s + 1 ELSE e]

\* C22: in linear mode the range of band k before clamping is
\* floor((N/2)k/B) .. floor((N/2)(k+1)/B); over any range of bins the band mean
\* is the sum of the magnitudes divided by their number; and in a push in
\* linear mode every band is smoothed towards the mean of the magnitudes over
\* its clamped range.
C22_LinearRangeAndMean ==
    /\ [](~logScale =>
            \A k \in 0..(numBands - 1) :
               RawBinRange(k, numBands, logScale, FFT_SIZE \div 2)
                  = [startBin |-> FloorOf((FFT_SIZE \div 2) * k, numBands),
                     endBin   |-> FloorOf((FFT_SIZE \div 2) * (k + 1), numBands)])
    /\ [](\A s \in 1..(FFT_SIZE \div 2 - 1) : \A e \in (s + 1)..(FFT_SIZE \div 2) :
            BandMean(magnitudes, [startBin |-> s, endBin |-> e])
               = FloorOf(SeqSum(SubSeq(magnitudes, s + 1, e)), e - s))
    /\ [][(nPush' # nPush /\ ~logScale) =>
            \A k \in 0..(numBands - 1) :
               LET r == LinearClamped(k)
                   v == FloorOf(SeqSum(SubSeq(magnitudes', r.startBin + 1, r.endBin)),
                                r.endBin - r.startBin)
               IN  bandValues'[k + 1] = Smooth(smoothing, ElementOrZero(bandValues, k + 1), v)]_vars

\* C22 witness: a push in linear mode with 8 bands has produced magnitudes
\* that differ between neighbouring bins, so that means over several bins are
\* not the value of one bin, and non-zero bands
C22_Witness ==
    /\ nPush >= 1
    /\ ~logScale
    /\ numBands = MinNumBands
    /\ Len(bandValues) = MinNumBands
    /\ magnitudes[2] # magnitudes[3]
    /\ \E k \in 1..Len(bandValues) : bandValues[k] > 0

\* C23: in a push, for every band: smoothed := a * smoothed + (1 - a) * v with v
\* the band mean; then, if the new smoothed value is strictly greater than the
\* stored peak, peak := smoothed and accumulator := 0; otherwise, equality
\* included, accumulator := accumulator + rate and peak := max(0, peak -
\* accumulator) with the increased accumulator.
C23_TemporalFilter ==
    [][nPush' # nPush =>
          \A k \in 1..numBands :
             LET v == BandMean(magnitudes', BandBins(k - 1, numBands, logScale))
                 s == TruncDiv(smoothing * ElementOrZero(bandValues, k), ONE)
                         + TruncDiv((ONE - smoothing) * v, ONE)
                 peak == ElementOrZero(peakValues, k)
                 acc == ElementOrZero(peakDecay, k) + decayRate
             IN  /\ bandValues'[k] = s
                 /\ s > peak => (peakValues'[k] = s /\ peakDecay'[k] = 0)
                 /\ s <= peak =>
                       /\ peakDecay'[k] = acc
                       /\ peakValues'[k] = (IF peak - acc > 0 THEN peak - acc ELSE 0)]_vars

\* C23 witness: after two pushes one band has just risen (peak on the smoothed
\* value, accumulator 0), one band with smoothed value equal to its peak of 0
\* has accumulated twice the decay rate
C23_Witness ==
    /\ nPush = 2
    /\ \E k \in 1..Len(bandValues) :
          bandValues[k] > 0 /\ peakValues[k] = bandValues[k] /\ peakDecay[k] = 0
    /\ \E k \in 1..Len(bandValues) :
          bandValues[k] = 0 /\ peakValues[k] = 0 /\ peakDecay[k] = 2 * decayRate

\* Band k (from 1) rises in the step: its new smoothed value exceeds the peak
\* stored before
Rises(k) == bandValues'[k] > peakValues[k]

\* C24: with a constant decay rate d every accumulator is a whole multiple i * d
\* of the rate, i no more than the number of pushes; a push in which band k
\* does not rise takes its accumulator from i * d to (i + 1) * d and lowers its
\* peak by (i + 1) * d, not below 0; and an accumulator becomes 0 or smaller
\* than it was only in a push in which that band rises, also when the peak is 0.
C24_DecayAccelerates ==
    /\ [](\A k \in 1..Len(peakDecay) :
            \E i \in 0..nPush : peakDecay[k] = i * decayRate)
    /\ [][nPush' # nPush =>
            \A k \in 1..Len(peakDecay) :
               /\ ~Rises(k) =>
                     /\ peakDecay'[k] = peakDecay[k] + decayRate
                     /\ peakValues'[k] = (IF peakValues[k] > peakDecay'[k]
                                          THEN peakValues[k] - peakDecay'[k] ELSE 0)
               /\ (peakDecay'[k] = 0 \/ peakDecay'[k] < peakDecay[k]) => Rises(k)]_vars

\* C24 witness: a band rose during the silence, which restarted its
\* accumulator, and has since gone at least five pushes without a rise: its
\* peak is 0 and its accumulator has grown past the peak's arrival at 0
C24_Witness ==
    /\ nPush >= 6
    /\ \E k \in 1..Len(peakDecay) :
          /\ peakValues[k] = 0
          /\ peakDecay[k] >= 5 * decayRate
          /\ peakDecay[k] < (nPush - 1) * decayRate

\* The last FFT_SIZE samples pushed, oldest first, each multiplied by the window
\* coefficient of its position, as complex numbers with imaginary part zero
ChronologicalFrame ==
    [i \in 1..FFT_SIZE |-> [re |-> TruncDiv(recent[i] * hannWindow[i], ONE), im |-> 0]]

\* C25: the working array computeFFT forms from the ring is, element by
\* element, the i-th oldest of the last FFT_SIZE samples pushed times window
\* coefficient i with imaginary part zero, wherever the write cursor stands; and
\* the transform buffer after a push is the transform of exactly that array.
C25_ChronologicalFrame ==
    /\ WindowedFrame(sampleBuffer, sampleWriteIndex, hannWindow) = ChronologicalFrame
    /\ nPush >= 1 =>
          \A frame \in {ChronologicalFrame} :
             fftBuffer = fftOptimized(frame, bitReverseLUT, twiddleFactors)

\* C25 witness: the ring has wrapped around, the cursor stands inside the ring
\* and the newest sample of the frame is the last sample of the last push
C25_Witness ==
    /\ nPush = 2
    /\ sampleWriteIndex = 5
    /\ recent = LastN(Ramp(FFT_SIZE + 2) \o Ramp(3), FFT_SIZE)
    /\ recent[FFT_SIZE] = Ramp(3)[3]
    /\ \E k \in 1..FFT_SIZE : fftBuffer[k].re # 0

\* The ring after samples have been written from the cursor on: element p holds
\* the last sample whose turn fell on p, or what it held before
RingAfter(samples) ==
    [p \in 1..FFT_SIZE |->
        LET turns == {i \in 1..Len(samples) : (sampleWriteIndex + i - 1) % FFT_SIZE = p - 1}
        IN  IF turns = {} THEN sampleBuffer[p]
            ELSE samples[CHOOSE i \in turns : \A j \in turns : j <= i]]

\* The step is a push of these samples: they are appended to the samples pushed
\* so far and are in the ring
PushOf(samples) ==
    /\ nPush' # nPush
    /\ recent' = LastN(recent \o samples, FFT_SIZE)
    /\ sampleBuffer' = RingAfter(samples)

\* C26: the write cursor is in 0 .. FFT_SIZE-1 in every reachable state and 0
\* before the first push; a step that is not a push leaves it alone; a push of
\* count samples leaves it at (previous cursor + count) mod FFT_SIZE.
C26_WriteCursor ==
    /\ [](sampleWriteIndex \in 0..(FFT_SIZE - 1))
    /\ [](nPush = 0 => sampleWriteIndex = 0)
    /\ [][/\ nPush' = nPush => sampleWriteIndex' = sampleWriteIndex
          /\ nPush' # nPush => \E samples \in SampleInputs : PushOf(samples)
          /\ \A samples \in SampleInputs :
                PushOf(samples)
                   => sampleWriteIndex' = (sampleWriteIndex + Len(samples)) % FFT_SIZE]_vars

\* C26 witness: two pushes of three samples have moved the cursor to 6 modulo
\* FFT_SIZE
C26_Witness ==
    /\ nPush = 2
    /\ recent = LastN(Ramp(3) \o Ramp(3), FFT_SIZE)
    /\ sampleWriteIndex = 6 % FFT_SIZE

\* exp(-2*pi*i*m/FFT_SIZE) for m = 0 .. FFT_SIZE-1 (element m + 1)
UnitRoots ==
    [m \in 1..FFT_SIZE |->
        [re |-> CosTurn(m - 1, FFT_SIZE), im |-> 0 - SinTurn(m - 1, FFT_SIZE)]]

\* The sum over n = from .. FFT_SIZE-1 of frame[n] * exp(-2*pi*i*k*n/FFT_SIZE)
RECURSIVE DftSum(_, _, _)
DftSum(frame, k, from) ==
    IF from >= FFT_SIZE THEN [re |-> 0, im |-> 0]
    ELSE LET x == frame[from + 1]
             w == UnitRoots[((k * from) % FFT_SIZE) + 1]
             rest == DftSum(frame, k, from + 1)
         IN  [re |-> rest.re + TruncDiv(x.re * w.re, ONE) - TruncDiv(x.im * w.im, ONE),
              im |-> rest.im + TruncDiv(x.re * w.im, ONE) + TruncDiv(x.im * w.re, ONE)]

\* The largest distance, in either component, between the transform buffer and
\* the discrete Fourier transform of the frame it was computed from
DftError ==
    LET frame == WindowedFrame(sampleBuffer, sampleWriteIndex, hannWindow)
        diff == [k \in 1..FFT_SIZE |->
                    LET d == DftSum(frame, k - 1, 0)
                    IN  Max(Abs(fftBuffer[k].re - d.re), Abs(fftBuffer[k].im - d.im))]
    IN  CHOOSE e \in {diff[k] : k \in 1..FFT_SIZE} : \A k \in 1..FFT_SIZE : diff[k] <= e

\* C27: the transform buffer left by computeFFT is the discrete Fourier
\* transform of the windowed frame, bin k being the sum over n of
\* frame[n] * exp(-2*pi*i*k*n/N), up to the rounding of the fixed-point
\* arithmetic (FFT_SIZE / 2 units of 0.001 in either component); and magnitude
\* bin k, k < N/2, is |output[k]| * 2 / N.
C27_TransformIsDft ==
    /\ DftError <= FFT_SIZE \div 2
    /\ \A k \in 1..(FFT_SIZE \div 2) :
          LET power == fftBuffer[k].re * fftBuffer[k].re + fftBuffer[k].im * fftBuffer[k].im
              m == magnitudes[k]
          IN  \E r \in ((m * FFT_SIZE) \div 2)..((m * FFT_SIZE + FFT_SIZE) \div 2) :
                 /\ r * r <= power
                 /\ power < (r + 1) * (r + 1)
                 /\ (2 * r) \div FFT_SIZE = m

\* C27 witness: the transform of a frame of sound has bins with non-zero real
\* and imaginary parts and a non-zero magnitude away from bin 0
C27_Witness ==
    /\ nPush >= 1
    /\ \E k \in 2..FFT_SIZE : fftBuffer[k].re # 0 /\ fftBuffer[k].im # 0
    /\ \E k \in 2..(FFT_SIZE \div 2) : magnitudes[k] > 0

\* C28: the bit-reversal table is a permutation of 0 .. FFT_SIZE-1 and its own
\* inverse; the reorder loop of fftOptimized, applied to the windowed frame,
\* puts at every position the element of the bit-reversed position, and applied
\* twice gives the frame back.
C28_ReorderIsInvolution ==
    /\ {bitReverseLUT[i] : i \in 1..FFT_SIZE} = 0..(FFT_SIZE - 1)
    /\ \A i \in 0..(FFT_SIZE - 1) : bitReverseLUT[bitReverseLUT[i + 1] + 1] = i
    /\ \A frame \in {WindowedFrame(sampleBuffer, sampleWriteIndex, hannWindow)} :
       \A reordered \in {BitReversalLoop(frame, bitReverseLUT, 0)} :
          /\ \A i \in 0..(FFT_SIZE - 1) : reordered[i + 1] = frame[bitReverseLUT[i + 1] + 1]
          /\ BitReversalLoop(reordered, bitReverseLUT, 0) = frame

\* C28 witness: the frame of a push of sound has different elements at position
\* 1 and at its bit-reversed position FFT_SIZE / 2, so the reorder moves them
C28_Witness ==
    /\ nPush >= 1
    /\ bitReverseLUT[2] = FFT_SIZE \div 2
    /\ \E frame \in {WindowedFrame(sampleBuffer, sampleWriteIndex, hannWindow)} :
          /\ frame[2] # frame[FFT_SIZE \div 2 + 1]
          /\ BitReversalLoop(frame, bitReverseLUT, 0) # frame

\* Butterfly applied for the visits from position p on
RECURSIVE ApplyVisits(_, _, _, _, _)
ApplyVisits(data, factors, visits, p, len) ==
    IF p > Len(visits) THEN data
    ELSE ApplyVisits(Butterfly(data, factors, visits[p][1], visits[p][2], len),
                     factors, visits, p + 1, len)

\* C29: there are log2(N) twiddle tables and the table of stage len has len/2
\* entries; in every stage the loops visit pairs (i, j) whose accesses
\* data[i+j], data[i+j+len/2] and factors[j] are within bounds, every index
\* 0 .. N-1 is touched by exactly one visit, and the stage is these butterflies.
C29_ButterfliesIndexSafe ==
    /\ Len(twiddleFactors) = LogFftSize
    /\ \A stage \in 1..LogFftSize :
          \A len \in {2 ^ stage} :
          \A visits \in {ButterflyVisits(FFT_SIZE, 0, 0, len)} :
             /\ Len(twiddleFactors[stage]) = len \div 2
             /\ \A p \in 1..Len(visits) :
                   /\ visits[p][1] + visits[p][2] \in 0..(FFT_SIZE - 1)
                   /\ visits[p][1] + visits[p][2] + len \div 2 \in 0..(FFT_SIZE - 1)
                   /\ visits[p][2] \in 0..(Len(twiddleFactors[stage]) - 1)
             /\ \A index \in 0..(FFT_SIZE - 1) :
                   Cardinality({p \in 1..Len(visits) :
                                   \/ index = visits[p][1] + visits[p][2]
                                   \/ index = visits[p][1] + visits[p][2] + len \div 2}) = 1
             /\ \A frame \in {WindowedFrame(sampleBuffer, sampleWriteIndex, hannWindow)} :
                   ButterflyLoop(frame, twiddleFactors[stage], 0, 0, len)
                      = ApplyVisits(frame, twiddleFactors[stage], visits, 1, len)

\* C29 witness: a transform of sound has run through all stages with the
\* tables of 1, 2, ..., N/2 factors
C29_Witness ==
    /\ nPush >= 1
    /\ Len(twiddleFactors[1]) = 1
    /\ Len(twiddleFactors[LogFftSize]) = FFT_SIZE \div 2
    /\ \E k \in 1..FFT_SIZE : fftBuffer[k].im # 0

\* the linear ranges of all bands for a band count and a spectrum size
LinearRanges(nb, spectrumSize) ==
    [k \in 1..nb |-> BinRange(k - 1, nb, FALSE, spectrumSize)]

\* the ranges are consecutive from bin 1 to the end of the spectrum, and every
\* bin from 1 on lies in exactly one of them
Tiles(ranges, spectrumSize) ==
    /\ ranges[1].startBin = 1
    /\ \A k \in 1..(Len(ranges) - 1) : ranges[k].endBin = ranges[k + 1].startBin
    /\ ranges[Len(ranges)].endBin = spectrumSize
    /\ \A bin \in 1..(spectrumSize - 1) :
          Cardinality({k \in 1..Len(ranges) :
                          ranges[k].startBin <= bin /\ bin < ranges[k].endBin}) = 1

\* Tiles at the FFT size of spectrum_view.h, for every band count setNumBands admits
SourceSizeTiles ==
    [nb \in MinNumBands..MaxNumBands |->
        \A ranges \in {LinearRanges(nb, SourceFftSize \div 2)} :
           Tiles(ranges, SourceFftSize \div 2)]

\* C30: in linear mode, with the FFT size of the header, the clamped ranges of
\* the current band count tile the spectrum without bin 0: band 0 starts at
\* bin 1, each band ends where the next starts, the last ends at N/2, and every
\* bin from 1 on lies in exactly one band.  At the transform size of the current
\* state band 0 starts at bin 1, the last band ends at N/2 and no bin from 1 on
\* is left out.
C30_LinearRangesTile ==
    ~logScale =>
       /\ numBands \in MinNumBands..MaxNumBands
       /\ SourceSizeTiles[numBands]
       /\ BandBins(0, numBands, FALSE).startBin = 1
       /\ BandBins(numBands - 1, numBands, FALSE).endBin = FFT_SIZE \div 2
       /\ \A bin \in 1..(FFT_SIZE \div 2 - 1) :
             \E k \in 0..(numBands - 1) :
                /\ BandBins(k, numBands, FALSE).startBin <= bin
                /\ bin < BandBins(k, numBands, FALSE).endBin

\* C30 witness: a linear display of 9 bands, which do not divide the spectrum
\* evenly, has processed sound; at the header's size band 0 is bins 1..55 and
\* band 1 starts at bin 56
C30_Witness ==
    /\ ~logScale
    /\ numBands = 9
    /\ nPush >= 1
    /\ \E k \in 1..Len(bandValues) : bandValues[k] > 0
    /\ LinearRanges(9, SourceFftSize \div 2)[1] = [startBin |-> 1, endBin |-> 56]
    /\ LinearRanges(9, SourceFftSize \div 2)[2].startBin = 56
    /\ LinearRanges(9, SourceFftSize \div 2)[9].endBin = 512

=============================================================================
